---- MODULE Spec2Model ----
(***************************************************************************)
(* A model of src/regex/regex_tree.rs: the regular-expression AST over a   *)
(* ten-letter alphabet, its parser, its flattening passes, its printer,    *)
(* its matcher and its equivalence test.                                   *)
(*                                                                         *)
(* A text is a sequence of characters.  Each character is a one-element    *)
(* string, except the character U+03B5, which is written "eps".            *)
(***************************************************************************)
EXTENDS Integers, Sequences, FiniteSets, TLC

VARIABLES
    ast,      \* the RegexAst the caller holds, or NoAst
    prev,     \* the RegexAst the last flatten was applied to, or NoAst
    origin,   \* the RegexAst the current text was rendered from, or NoAst
    text,     \* the text last given to parse_str or produced by fmt
    outcome,  \* result of the last parse_str: "None", "Ok", "SyntaxError", "UnparsedTail"
    tail,     \* the leftover an UnparsedTail error carries
    another,  \* the argument of the last equivalent_to, or NoAst
    answer,   \* the boolean the last equivalent_to or matches returned
    symbols,  \* the sequence of Alphabet values given to matches
    op        \* the last operation: "built", "input", "flatten", "fmt", "parse_str",
              \* "matches", "equivalent_to", or "panic" for an equivalent_to that
              \* panicked

vars == <<ast, prev, origin, text, outcome, tail, another, answer, symbols, op>>

----------------------------------------------------------------------------
(* Bounds of the model *)

\* the number of nodes of a caller-built RegexAst
MaxSize == 5
\* the number of characters of a caller-given text
MaxText == 4
\* the number of symbols of a word given to matches or to an automaton
MaxWord == 3
\* the number of nodes of each RegexAst of an equivalent_to call
MaxEqSize == 3
\* the number of nodes of a caller-built RegexAst given to matches
MaxMatchSize == 4

----------------------------------------------------------------------------
(* enum Alphabet *)

Alphabet == {"A", "B", "C", "D", "E", "F", "G", "H", "I", "J"}

LowerOf == [x \in Alphabet |->
    CASE x = "A" -> "a" [] x = "B" -> "b" [] x = "C" -> "c" [] x = "D" -> "d"
      [] x = "E" -> "e" [] x = "F" -> "f" [] x = "G" -> "g" [] x = "H" -> "h"
      [] x = "I" -> "i" [] x = "J" -> "j"]

\* impl Display for Alphabet
AlphabetFmt(x) == LowerOf[x]

\* Alphabet::from_char: [ok, val]
from_char(input) ==
    IF \E x \in Alphabet : input = LowerOf[x] \/ input = x
    THEN [ok |-> TRUE, val |-> CHOOSE x \in Alphabet : input = LowerOf[x] \/ input = x]
    ELSE [ok |-> FALSE, val |-> "A"]

\* the letters the caller-built trees and the words are made of
Letters == {"A", "B"}

----------------------------------------------------------------------------
(* enum RegexAst: one record shape for the five variants *)

Epsilon == [k |-> "Epsilon", a |-> "-", c |-> <<>>]
Literal(x) == [k |-> "Literal", a |-> x, c |-> <<>>]
Star(t) == [k |-> "Star", a |-> "-", c |-> <<t>>]
Concatenation(ts) == [k |-> "Concatenation", a |-> "-", c |-> ts]
Alternation(ts) == [k |-> "Alternation", a |-> "-", c |-> ts]

NoAst == [k |-> "None", a |-> "-", c |-> <<>>]

\* The caller-built trees: every RegexAst of n nodes over Letters whose
\* Concatenation and Alternation nodes have at least one child.
RECURSIVE TreesOfSize(_), Forests(_), ForestsHeadedBy(_, _), TreesUpTo(_)
TreesOfSize(n) ==
    IF n = 1 THEN {Epsilon} \cup {Literal(x) : x \in Letters}
    ELSE {Star(t) : t \in TreesOfSize(n - 1)}
         \cup {Concatenation(f) : f \in Forests(n - 1)}
         \cup {Alternation(f) : f \in Forests(n - 1)}
\* the sequences of trees of n nodes in total whose first tree has up to i nodes
ForestsHeadedBy(n, i) ==
    IF i = 0 THEN {}
    ELSE {<<t>> \o f : t \in TreesOfSize(i), f \in Forests(n - i)} \cup ForestsHeadedBy(n, i - 1)
\* the nonempty sequences of trees of n nodes in total
Forests(n) == {<<t>> : t \in TreesOfSize(n)} \cup ForestsHeadedBy(n, n - 1)
TreesUpTo(n) == IF n = 0 THEN {} ELSE TreesUpTo(n - 1) \cup TreesOfSize(n)

Trees == TreesUpTo(MaxSize)
EqTrees == TreesUpTo(MaxEqSize)

----------------------------------------------------------------------------
(* flattening operations *)

\* the flat_map of the Alternation and Concatenation arms: the children of
\* each element of the given kind are spliced in place of it
RECURSIVE flat_map(_, _)
\* flat_map with the elements of the given kind left out, not spliced
flat_map_drops_nested(vec, kind) ==
    IF vec = <<>> THEN <<>>
    ELSE (IF Head(vec).k = kind THEN <<>> ELSE <<Head(vec)>>)
         \o flat_map(Tail(vec), kind)

flat_map(vec, kind) ==
    IF vec = <<>> THEN <<>>
    ELSE (IF Head(vec).k = kind THEN Head(vec).c ELSE <<Head(vec)>>)
         \o flat_map(Tail(vec), kind)

RECURSIVE flatten_alternations(_)
flatten_alternations(self) ==
    CASE self.k = "Star" -> Star(flatten_alternations(self.c[1]))
      [] self.k = "Concatenation" ->
            Concatenation([i \in 1..Len(self.c) |-> flatten_alternations(self.c[i])])
      [] self.k = "Alternation" /\ Len(self.c) = 1 -> flatten_alternations(self.c[1])
      [] self.k = "Alternation" /\ Len(self.c) # 1 ->
            Alternation(flat_map([i \in 1..Len(self.c) |-> flatten_alternations(self.c[i])],
                                 "Alternation"))
      [] OTHER -> self

\* the children of a Concatenation of several children and of an Alternation
\* are mapped with flatten_alternations (line 311)
RECURSIVE flatten_consecutive_concatenations(_)
flatten_consecutive_concatenations(self) ==
    CASE self.k = "Star" -> Star(flatten_consecutive_concatenations(self.c[1]))
      [] self.k = "Concatenation" /\ Len(self.c) = 1 ->
            flatten_consecutive_concatenations(self.c[1])
      [] self.k = "Concatenation" /\ Len(self.c) # 1 ->
            Concatenation(flat_map([i \in 1..Len(self.c) |-> flatten_alternations(self.c[i])],
                                   "Concatenation"))
      [] self.k = "Alternation" ->
            Alternation([i \in 1..Len(self.c) |-> flatten_alternations(self.c[i])])
      [] OTHER -> self

\* a Star whose flattened child is a Star yields the grandchild (line 347)
RECURSIVE flatten_consecutive_stars(_)
flatten_consecutive_stars(self) ==
    CASE self.k = "Star" ->
            LET flattened_child == flatten_consecutive_stars(self.c[1])
            IN  IF flattened_child.k = "Star" THEN flattened_child.c[1]
                ELSE Star(flattened_child)
      [] self.k = "Concatenation" ->
            Concatenation([i \in 1..Len(self.c) |-> flatten_consecutive_stars(self.c[i])])
      [] self.k = "Alternation" ->
            Alternation([i \in 1..Len(self.c) |-> flatten_consecutive_stars(self.c[i])])
      [] OTHER -> self

flatten(self) ==
    flatten_consecutive_stars(flatten_consecutive_concatenations(flatten_alternations(self)))

----------------------------------------------------------------------------
(* Languages, cut at MaxWord symbols: what the pattern engine and the      *)
(* automaton engine compute with                                           *)

LangConcat(L1, L2) == {u \o v : <<u, v>> \in {p \in L1 \X L2 : Len(p[1]) + Len(p[2]) <= MaxWord}}
LangUnion(L1, L2) == L1 \cup L2
RECURSIVE LangClose(_, _)
LangClose(acc, L) ==
    LET more == acc \cup LangConcat(acc, L)
    IN  IF more = acc THEN acc ELSE LangClose(more, L)
LangStar(L) == LangClose({<<>>}, L)

----------------------------------------------------------------------------
(* matches: the AST compiled to a pattern of the regex crate *)

\* Alphabet::slice_to_plain_string
slice_to_plain_string(alphabets) == [i \in 1..Len(alphabets) |-> AlphabetFmt(alphabets[i])]

RECURSIVE compile_to_epsilonless_regex(_), join_with_separator(_, _)
join_with_separator(sep, asts) ==
    IF asts = <<>> THEN <<>>
    ELSE IF Len(asts) = 1 THEN compile_to_epsilonless_regex(asts[1])
    ELSE compile_to_epsilonless_regex(Head(asts)) \o sep \o join_with_separator(sep, Tail(asts))

\* compile_to_epsilonless_regex with "(.)" for Epsilon: the repetition
\* count {0} is left out
compile_to_epsilonless_regex_any_symbol(self) ==
    CASE self.k = "Epsilon" -> <<"(", ".", ")">>
      [] self.k = "Literal" -> <<AlphabetFmt(self.a)>>
      [] self.k = "Star" -> <<"(">> \o compile_to_epsilonless_regex(self.c[1]) \o <<")", "*">>
      [] self.k = "Concatenation" -> <<"(">> \o join_with_separator(<<>>, self.c) \o <<")">>
      [] self.k = "Alternation" -> <<"(">> \o join_with_separator(<<"|">>, self.c) \o <<")">>

compile_to_epsilonless_regex(self) ==
    CASE self.k = "Epsilon" -> <<"(", ".", "{", "0", "}", ")">>
      [] self.k = "Literal" -> <<AlphabetFmt(self.a)>>
      [] self.k = "Star" -> <<"(">> \o compile_to_epsilonless_regex(self.c[1]) \o <<")", "*">>
      [] self.k = "Concatenation" -> <<"(">> \o join_with_separator(<<>>, self.c) \o <<")">>
      [] self.k = "Alternation" -> <<"(">> \o join_with_separator(<<"|">>, self.c) \o <<")">>

compile_to_string_regex(self) ==
    <<"^", "(">> \o compile_to_epsilonless_regex(self) \o <<")", "$">>

\* The regex crate on the patterns above: groups, '|', juxtaposition, the
\* postfix '*' and '{0}', '.', and letters.  Each Rx operator reads a
\* pattern and yields the language of what it read and the rest.
WordChars == {AlphabetFmt(x) : x \in Letters}

RECURSIVE RxAlternate(_), RxAlternateMore(_, _), RxConcat(_, _), RxRepeat(_), RxPostfix(_, _), RxAtom(_)
RxAtom(p) ==
    IF p # <<>> /\ Head(p) = "(" THEN
        LET inner == RxAlternate(Tail(p))
        IN  [lang |-> inner.lang, rest |-> Tail(inner.rest)]
    ELSE IF p # <<>> /\ Head(p) = "." THEN [lang |-> {<<x>> : x \in WordChars}, rest |-> Tail(p)]
    ELSE [lang |-> {<<Head(p)>>}, rest |-> Tail(p)]
RxPostfix(lang, p) ==
    IF p # <<>> /\ Head(p) = "*" THEN RxPostfix(LangStar(lang), Tail(p))
    ELSE IF Len(p) >= 3 /\ SubSeq(p, 1, 3) = <<"{", "0", "}">>
         THEN RxPostfix({<<>>}, SubSeq(p, 4, Len(p)))
    ELSE [lang |-> lang, rest |-> p]
RxRepeat(p) ==
    LET atom == RxAtom(p) IN RxPostfix(atom.lang, atom.rest)
RxConcat(lang, p) ==
    IF p = <<>> \/ Head(p) \in {"|", ")", "$"} THEN [lang |-> lang, rest |-> p]
    ELSE LET r == RxRepeat(p) IN RxConcat(LangConcat(lang, r.lang), r.rest)
RxAlternateMore(lang, p) ==
    IF p # <<>> /\ Head(p) = "|"
    THEN LET r == RxConcat({<<>>}, Tail(p)) IN RxAlternateMore(LangUnion(lang, r.lang), r.rest)
    ELSE [lang |-> lang, rest |-> p]
RxAlternate(p) ==
    LET r == RxConcat({<<>>}, p) IN RxAlternateMore(r.lang, r.rest)

\* Regex::is_match on a pattern anchored by '^' and '$'
is_match(regex, haystack) ==
    /\ Head(regex) = "^"
    /\ LET r == RxAlternate(Tail(regex)) IN r.rest = <<"$">> /\ haystack \in r.lang

matches(self, input) == is_match(compile_to_string_regex(self), slice_to_plain_string(input))

\* the words matches is asked about
RECURSIVE WordsUpTo(_)
WordsUpTo(n) == IF n = 0 THEN {<<>>} ELSE WordsUpTo(n - 1) \cup [1..n -> Letters]
Words == WordsUpTo(MaxWord)

----------------------------------------------------------------------------
(* equivalent_to: the AST compiled to an automaton of rustomaton *)

\* An automaton is its alphabet and its language; an automaton built from
\* nothing (fold1 of no children, unwrapped) is the panic.
Nfa(alphabets, lang) == [panic |-> FALSE, alphabet |-> alphabets, lang |-> lang]
NfaPanic == [panic |-> TRUE, alphabet |-> {}, lang |-> {}]

new_length(alphabets, n) == Nfa(alphabets, {w \in {<<>>} : Len(w) = n})
new_matching(alphabets, word) == Nfa(alphabets, {word})
kleene(nfa) == IF nfa.panic THEN NfaPanic ELSE Nfa(nfa.alphabet, LangStar(nfa.lang))
concatenate(nfa1, nfa2) ==
    IF nfa1.panic \/ nfa2.panic THEN NfaPanic
    ELSE Nfa(nfa1.alphabet \cup nfa2.alphabet, LangConcat(nfa1.lang, nfa2.lang))
unite(nfa1, nfa2) ==
    IF nfa1.panic \/ nfa2.panic THEN NfaPanic
    ELSE Nfa(nfa1.alphabet \cup nfa2.alphabet, LangUnion(nfa1.lang, nfa2.lang))
nfa_eq(nfa1, nfa2) == nfa1.alphabet = nfa2.alphabet /\ nfa1.lang = nfa2.lang

RECURSIVE compile_to_nfa(_, _), fold1_nfa(_, _, _)
\* fold1_nfa with the fold of the Alternation arm in the Concatenation arm
fold1_nfa_always_unites(asts, alphabets, kind) ==
    IF asts = <<>> THEN NfaPanic
    ELSE IF Len(asts) = 1 THEN compile_to_nfa(asts[1], alphabets)
    ELSE unite(fold1_nfa(SubSeq(asts, 1, Len(asts) - 1), alphabets, kind),
               compile_to_nfa(asts[Len(asts)], alphabets))

\* fold1 over the automata of the children, from the left
fold1_nfa(asts, alphabets, kind) ==
    IF asts = <<>> THEN NfaPanic
    ELSE IF Len(asts) = 1 THEN compile_to_nfa(asts[1], alphabets)
    ELSE LET init == fold1_nfa(SubSeq(asts, 1, Len(asts) - 1), alphabets, kind)
             last == compile_to_nfa(asts[Len(asts)], alphabets)
         IN  IF kind = "Concatenation" THEN concatenate(init, last) ELSE unite(init, last)

compile_to_nfa(self, alphabets) ==
    CASE self.k = "Epsilon" -> new_length(alphabets, 0)
      [] self.k = "Literal" -> new_matching(alphabets, <<self.a>>)
      [] self.k = "Star" -> kleene(compile_to_nfa(self.c[1], alphabets))
      [] self.k = "Concatenation" -> fold1_nfa(self.c, alphabets, "Concatenation")
      [] self.k = "Alternation" -> fold1_nfa(self.c, alphabets, "Alternation")

\* used_alphabets: the work list is a stack, extended at its end
RECURSIVE used_alphabets_loop(_, _)
\* used_alphabets_loop leaving the loop at the first Literal it pops
used_alphabets_loop_stops_at_literal(accum, exprs_to_process) ==
    IF exprs_to_process = <<>> THEN accum
    ELSE LET to_process == exprs_to_process[Len(exprs_to_process)]
             rest == SubSeq(exprs_to_process, 1, Len(exprs_to_process) - 1)
         IN  CASE to_process.k = "Epsilon" -> used_alphabets_loop(accum, rest)
               [] to_process.k = "Literal" -> accum \cup {to_process.a}
               [] OTHER -> used_alphabets_loop(accum, rest \o to_process.c)

used_alphabets_loop(accum, exprs_to_process) ==
    IF exprs_to_process = <<>> THEN accum
    ELSE LET to_process == exprs_to_process[Len(exprs_to_process)]
             rest == SubSeq(exprs_to_process, 1, Len(exprs_to_process) - 1)
         IN  CASE to_process.k = "Epsilon" -> used_alphabets_loop(accum, rest)
               [] to_process.k = "Literal" -> used_alphabets_loop(accum \cup {to_process.a}, rest)
               [] OTHER -> used_alphabets_loop(accum, rest \o to_process.c)
used_alphabets(self) == used_alphabets_loop({}, <<self>>)

\* [panic, value]: the boolean returned, unless compile_to_nfa panicked
equivalent_to(self, other) ==
    IF used_alphabets(self) # used_alphabets(other) THEN [panic |-> FALSE, value |-> FALSE]
    ELSE LET nfa_1 == compile_to_nfa(self, used_alphabets(self))
             nfa_2 == compile_to_nfa(other, used_alphabets(self))
         IN  IF nfa_1.panic \/ nfa_2.panic THEN [panic |-> TRUE, value |-> FALSE]
             ELSE [panic |-> FALSE, value |-> nfa_eq(nfa_1, nfa_2)]

----------------------------------------------------------------------------
(* regex_parser_: the combine parser.  A parser yields                     *)
(*   [ok, committed, ast, rest]                                            *)
(* where committed says that input was consumed: a parser that fails after *)
(* consuming input makes the enclosing choice, many1 and sep_by1 fail too, *)
(* one that fails without consuming lets them stop or try the next branch. *)

\* the letters other than a..j and A..J
OtherLetters == {"z"}
\* char::is_alphabetic, the test of letter()
IsLetter(ch) == ch \in ({LowerOf[x] : x \in Alphabet} \cup Alphabet \cup OtherLetters \cup {"eps"})

POk(t, rest) == [ok |-> TRUE, committed |-> TRUE, ast |-> t, rest |-> rest]
PErr(committed) == [ok |-> FALSE, committed |-> committed, ast |-> NoAst, rest |-> <<>>]

\* the result of many1 and of sep_by1: the outputs collected and the rest
POkAll(asts, rest) == [ok |-> TRUE, committed |-> TRUE, asts |-> asts, rest |-> rest]
PErrAll(committed) == [ok |-> FALSE, committed |-> committed, asts |-> <<>>, rest |-> <<>>]

parse_epsilon(input) ==
    IF input # <<>> /\ Head(input) = "eps" THEN POk(Epsilon, Tail(input)) ELSE PErr(FALSE)

\* letter().then(..): a letter that is no Alphabet fails after it was read
parse_literal(input) ==
    IF input # <<>> /\ IsLetter(Head(input))
    THEN IF from_char(Head(input)).ok
         THEN POk(Literal(from_char(Head(input)).val), Tail(input))
         ELSE PErr(TRUE)
    ELSE PErr(FALSE)

\* one step of choice!: the next branch is tried only after a failure that
\* consumed nothing
choice_or(first, second) == IF first.ok \/ first.committed THEN first ELSE second

\* many_stars with optional in place of many: one '*' at most is read
many_stars_at_most_one(input) ==
    IF input # <<>> /\ Head(input) = "*" THEN Tail(input) ELSE input

\* many(char('*')): the input after the run of '*'
RECURSIVE many_stars(_)
many_stars(input) ==
    IF input # <<>> /\ Head(input) = "*" THEN many_stars(Tail(input)) ELSE input

\* the closure of parse_repetitions: a Star if at least one '*' was read
map_repetitions(atom, rest) ==
    IF rest # atom.rest THEN POk(Star(atom.ast), rest) ELSE POk(atom.ast, rest)
then_many_stars(atom) ==
    IF ~atom.ok THEN atom ELSE map_repetitions(atom, many_stars(atom.rest))

\* .skip(char(')')) after the expression in parentheses
skip_close_paren(inner) ==
    IF inner.ok /\ inner.rest # <<>> /\ Head(inner.rest) = ")"
    THEN POk(inner.ast, Tail(inner.rest))
    ELSE PErr(TRUE)

\* the closure of parse_concat
map_concat(all) ==
    IF ~all.ok THEN PErr(all.committed)
    ELSE IF Len(all.asts) > 1 THEN POk(Concatenation(all.asts), all.rest)
    ELSE POk(all.asts[1], all.rest)

\* map_concat without the passthrough of a single repetition
map_concat_always_wraps(all) ==
    IF ~all.ok THEN PErr(all.committed) ELSE POk(Concatenation(all.asts), all.rest)

\* the closure of regex_parser_
map_alternation(all) ==
    IF ~all.ok THEN PErr(all.committed)
    ELSE IF Len(all.asts) > 1 THEN POk(Alternation(all.asts), all.rest)
    ELSE POk(all.asts[1], all.rest)

RECURSIVE regex_parser(_), parse_parens(_), parse_epsilon_literal_or_parens(_),
          parse_repetitions(_), many1_repetitions(_, _), many1_next(_, _, _),
          parse_concat(_), sep_by1_concat(_, _), sep_by1_next(_, _)

\* char('(').with(regex_parser()).skip(char(')'))
parse_parens(input) ==
    IF input # <<>> /\ Head(input) = "("
    THEN skip_close_paren(regex_parser(Tail(input)))
    ELSE PErr(FALSE)

parse_epsilon_literal_or_parens(input) ==
    choice_or(parse_epsilon(input), choice_or(parse_literal(input), parse_parens(input)))

parse_repetitions(input) == then_many_stars(parse_epsilon_literal_or_parens(input))

\* many1(parse_repetitions), asts being the outputs so far: the first
\* repetition must parse; after it a failure that consumed nothing ends the
\* sequence and a failure that consumed input fails it
many1_next(asts, input, r) ==
    IF r.ok THEN many1_repetitions(Append(asts, r.ast), r.rest)
    ELSE IF asts = <<>> THEN PErrAll(r.committed)
    ELSE IF r.committed THEN PErrAll(TRUE)
    ELSE POkAll(asts, input)
many1_repetitions(asts, input) == many1_next(asts, input, parse_repetitions(input))

\* parse_concat without the passthrough of a single repetition
parse_concat_always_wraps(input) == map_concat_always_wraps(many1_repetitions(<<>>, input))

parse_concat(input) == map_concat(many1_repetitions(<<>>, input))

\* sep_by1(parse_concat, char('|')), asts being the outputs so far: the
\* first term must parse; after it a missing '|' ends the sequence and a
\* term that fails after a '|' fails it
sep_by1_next(asts, r) ==
    IF r.ok THEN sep_by1_concat(Append(asts, r.ast), r.rest)
    ELSE IF asts = <<>> THEN PErrAll(r.committed)
    ELSE PErrAll(TRUE)
sep_by1_concat(asts, input) ==
    IF asts # <<>> /\ (input = <<>> \/ Head(input) # "|") THEN POkAll(asts, input)
    ELSE sep_by1_next(asts, parse_concat(IF asts = <<>> THEN input ELSE Tail(input)))

regex_parser(input) == map_alternation(sep_by1_concat(<<>>, input))

\* the body of parse_str, r being what regex_parser().parse(string) yields
parse_str_result(r) ==
    IF ~r.ok THEN [outcome |-> "SyntaxError", ast |-> NoAst, tail |-> <<>>]
    ELSE IF r.rest = <<>> THEN [outcome |-> "Ok", ast |-> r.ast, tail |-> <<>>]
    ELSE [outcome |-> "UnparsedTail", ast |-> NoAst, tail |-> r.rest]

\* parse_str without the test of the remaining input
parse_str_ignores_remaining(string) ==
    parse_str_result([regex_parser(string) EXCEPT !.rest = <<>>])

\* RegexAst::parse_str: [outcome, ast, tail]
parse_str(string) == parse_str_result(regex_parser(string))

----------------------------------------------------------------------------
(* The printer *)

\* enum FmtPrecedence, in its derived order
PrecAlternation == 0
PrecConcatenation == 1
PrecStar == 2

\* format!("({inner})") if show_parens, inner otherwise
parens_if(show_parens, inner) == IF show_parens THEN <<"(">> \o inner \o <<")">> ELSE inner

RECURSIVE show_with_precedence(_, _), show_joined(_, _)
\* the children shown in a Concatenation context and joined with sep
show_joined(asts, sep) ==
    IF asts = <<>> THEN <<>>
    ELSE show_with_precedence(PrecConcatenation, Head(asts))
         \o (IF Len(asts) > 1 THEN sep ELSE <<>>)
         \o show_joined(Tail(asts), sep)

\* show_with_precedence with an Alternation parenthesized as a
\* Concatenation is: not under a Concatenation
show_with_precedence_bare_alternation(prec, t) ==
    CASE t.k = "Epsilon" -> <<"eps">>
      [] t.k = "Literal" -> <<AlphabetFmt(t.a)>>
      [] t.k = "Star" -> show_with_precedence(PrecStar, t.c[1]) \o <<"*">>
      [] t.k = "Concatenation" -> parens_if(prec > PrecConcatenation, show_joined(t.c, <<>>))
      [] t.k = "Alternation" -> parens_if(prec > PrecConcatenation, show_joined(t.c, <<"|">>))

show_with_precedence(prec, t) ==
    CASE t.k = "Epsilon" -> <<"eps">>
      [] t.k = "Literal" -> <<AlphabetFmt(t.a)>>
      [] t.k = "Star" -> show_with_precedence(PrecStar, t.c[1]) \o <<"*">>
      [] t.k = "Concatenation" -> parens_if(prec > PrecConcatenation, show_joined(t.c, <<>>))
      [] t.k = "Alternation" -> parens_if(prec > PrecAlternation, show_joined(t.c, <<"|">>))

\* impl Display for RegexAst
fmt(self) == show_with_precedence(PrecAlternation, self)

----------------------------------------------------------------------------
(* The texts the caller gives to parse_str *)

Chars == {"a", "B", "z", "eps", "(", ")", "*", "|"}

RECURSIVE TextsUpTo(_)
TextsUpTo(n) == IF n = 0 THEN {<<>>} ELSE TextsUpTo(n - 1) \cup [1..n -> Chars]

\* the inputs of the tests str_to_regex_ast and regex_ast_flattening
TestTexts == {
    <<"a", "b", "c">>,
    <<"a", "b", "|", "c">>,
    <<"a", "b", "*", "|", "c", "d">>,
    <<"(", "(", "(", "a", ")", "*", ")", "*", ")", "*">>,
    <<"a", "(", "b", "(", "a", "|", "(", "b", "|", "(", "c", "|", "d", ")", ")", ")", ")">> }

Texts == TextsUpTo(MaxText) \cup TestTexts

----------------------------------------------------------------------------
(* The caller: it builds a RegexAst or is given a text, and then applies   *)
(* flatten, fmt and parse_str in any order.                                *)

Init ==
    /\ \/ ast \in Trees /\ text = <<>> /\ op = "built"
       \/ ast = NoAst /\ text \in Texts /\ op = "input"
    /\ prev = NoAst
    /\ origin = NoAst
    /\ outcome = "None"
    /\ tail = <<>>
    /\ another = NoAst
    /\ answer = FALSE
    /\ symbols = <<>>

Flatten ==
    /\ ast # NoAst
    /\ prev' = ast
    /\ ast' = flatten(ast)
    /\ op' = "flatten"
    /\ outcome' = "None"
    /\ tail' = <<>>
    /\ UNCHANGED <<origin, text, another, answer, symbols>>

Fmt ==
    /\ ast # NoAst
    /\ text' = fmt(ast)
    /\ origin' = ast
    /\ op' = "fmt"
    /\ prev' = NoAst
    /\ outcome' = "None"
    /\ tail' = <<>>
    /\ UNCHANGED <<ast, another, answer, symbols>>

ParseStr ==
    /\ op \in {"input", "fmt"}
    /\ \E r \in {parse_str(text)} :
          /\ outcome' = r.outcome
          /\ ast' = r.ast
          /\ tail' = r.tail
    /\ op' = "parse_str"
    /\ prev' = NoAst
    /\ UNCHANGED <<origin, text, another, answer, symbols>>

Next == Flatten \/ Fmt \/ ParseStr

Spec == Init /\ [][Next]_vars

----------------------------------------------------------------------------
(* The caller of equivalent_to: it holds two RegexAsts and compares them.  *)

InitEquiv ==
    /\ ast \in EqTrees
    /\ another \in EqTrees
    /\ op = "built"
    /\ answer = FALSE
    /\ prev = NoAst
    /\ origin = NoAst
    /\ text = <<>>
    /\ outcome = "None"
    /\ tail = <<>>
    /\ symbols = <<>>

EquivalentTo ==
    /\ op = "built"
    /\ another # NoAst
    /\ \E r \in {equivalent_to(ast, another)} :
          /\ answer' = r.value
          /\ op' = IF r.panic THEN "panic" ELSE "equivalent_to"
    /\ UNCHANGED <<ast, another, prev, origin, text, outcome, tail, symbols>>

NextEquiv == EquivalentTo

SpecEquiv == InitEquiv /\ [][NextEquiv]_vars

----------------------------------------------------------------------------
(* The caller of matches: it holds a RegexAst, built or parsed, and asks   *)
(* whether a sequence of symbols matches it.                               *)

MatchTrees == TreesUpTo(MaxMatchSize)

\* the expressions of the test regex_ast_matches
MatchTestTexts == {
    <<"a", "b", "|", "c">>,
    <<"eps", "|", "a">>,
    <<"a", "*", "b", "eps", "c", "c", "*">>,
    <<"eps">>,
    <<"eps", "*">>,
    <<"eps", "|", "a", "a", "a", "*">> }
MatchTestAsts == {parse_str(s).ast : s \in MatchTestTexts}

\* the inputs of the test regex_ast_matches of up to MaxWord symbols
MatchTestWords == {w \in {<<"A", "B">>, <<"C">>, <<>>, <<"A">>, <<"B", "C">>, <<"A", "A", "C">>} :
                      Len(w) <= MaxWord}

InitMatches ==
    /\ ast \in MatchTrees \cup MatchTestAsts
    /\ symbols \in Words \cup MatchTestWords
    /\ op = "built"
    /\ answer = FALSE
    /\ another = NoAst
    /\ prev = NoAst
    /\ origin = NoAst
    /\ text = <<>>
    /\ outcome = "None"
    /\ tail = <<>>

Matches ==
    /\ op = "built"
    /\ answer' = matches(ast, symbols)
    /\ op' = "matches"
    /\ UNCHANGED <<ast, symbols, another, prev, origin, text, outcome, tail>>

NextMatches == Matches

SpecMatches == InitMatches /\ [][NextMatches]_vars

----------------------------------------------------------------------------
(* What the claims speak of *)

\* Membership of a word in the language a RegexAst denotes: Epsilon the
\* empty word only, Literal one symbol, Star zero or more repetitions,
\* Concatenation the words split in order among the children, Alternation
\* the words of some child.
RECURSIVE Accepts(_, _), AcceptsSeq(_, _)
Accepts(t, w) ==
    CASE t.k = "Epsilon" -> w = <<>>
      [] t.k = "Literal" -> w = <<t.a>>
      [] t.k = "Star" ->
            \/ w = <<>>
            \/ \E i \in 1..Len(w) :
                  Accepts(t.c[1], SubSeq(w, 1, i)) /\ Accepts(t, SubSeq(w, i + 1, Len(w)))
      [] t.k = "Concatenation" -> AcceptsSeq(t.c, w)
      [] t.k = "Alternation" -> \E i \in 1..Len(t.c) : Accepts(t.c[i], w)
AcceptsSeq(ts, w) ==
    IF ts = <<>> THEN w = <<>>
    ELSE \E i \in 0..Len(w) :
            Accepts(Head(ts), SubSeq(w, 1, i)) /\ AcceptsSeq(Tail(ts), SubSeq(w, i + 1, Len(w)))

SameLanguage(t1, t2) == \A w \in Words : Accepts(t1, w) = Accepts(t2, w)

\* The normalized form: no Alternation under an Alternation, no
\* Concatenation under a Concatenation, no Star under a Star, no
\* Alternation or Concatenation of one child, at any depth.
RECURSIVE Normalized(_)
Normalized(t) ==
    /\ t.k \in {"Alternation", "Concatenation"} => Len(t.c) # 1
    /\ \A i \in 1..Len(t.c) :
          /\ t.k \in {"Alternation", "Concatenation", "Star"} => t.c[i].k # t.k
          /\ Normalized(t.c[i])

\* the tree under a chain of Stars
RECURSIVE StarCore(_)
StarCore(t) == IF t.k = "Star" THEN StarCore(t.c[1]) ELSE t

\* The grammar, read by splitting instead of by descent:
\*   expr := concat ('|' concat)*,  concat := repetition+,
\*   repetition := atom '*'*,  atom := 'eps' | letter | '(' expr ')'
\* Reading(s) is the tree of the whole of s, Alternation and Concatenation
\* only for two terms or more, one Star for a run of '*'; NoAst if s is
\* not derived by expr.
RECURSIVE Depth(_, _)
\* the number of '(' not yet closed before position i
Depth(s, i) ==
    IF i <= 1 THEN 0
    ELSE Depth(s, i - 1) + (IF s[i - 1] = "(" THEN 1 ELSE IF s[i - 1] = ")" THEN -1 ELSE 0)

\* s is one atom: one character, or a group closed by its last character
IsAtomText(s) ==
    \/ Len(s) = 1 /\ s[1] \notin {"(", ")", "*", "|"}
    \/ /\ Len(s) >= 2 /\ s[1] = "(" /\ s[Len(s)] = ")"
       /\ \A i \in 2..Len(s) : Depth(s, i) > 0
       /\ Depth(s, Len(s) + 1) = 0

\* the length of the first repetition of s (an atom and the '*' after it), or 0
RECURSIVE StarRun(_, _)
StarRun(s, i) == IF i <= Len(s) /\ s[i] = "*" THEN StarRun(s, i + 1) ELSE i - 1
FirstRepetition(s) ==
    IF s = <<>> THEN 0
    ELSE IF s[1] = "("
         THEN IF \E j \in 2..Len(s) : IsAtomText(SubSeq(s, 1, j))
              THEN StarRun(s, 1 + CHOOSE j \in 2..Len(s) : IsAtomText(SubSeq(s, 1, j)))
              ELSE 0
    ELSE IF IsAtomText(<<s[1]>>) THEN StarRun(s, 2)
    ELSE 0

RECURSIVE Reading(_), ReadTerms(_), ReadRepetitions(_)
\* the readings of the terms between the '|' outside parentheses
ReadTerms(s) ==
    LET bars == {i \in 1..Len(s) : s[i] = "|" /\ Depth(s, i) = 0}
    IN  IF bars = {} THEN <<Reading(s)>>
        ELSE LET b == CHOOSE i \in bars : \A j \in bars : i <= j
             IN  <<Reading(SubSeq(s, 1, b - 1))>> \o ReadTerms(SubSeq(s, b + 1, Len(s)))
\* the readings of the repetitions of a term
ReadRepetitions(s) ==
    IF s = <<>> THEN <<>>
    ELSE LET n == FirstRepetition(s)
         IN  IF n = 0 THEN <<NoAst>>
             ELSE <<Reading(SubSeq(s, 1, n))>> \o ReadRepetitions(SubSeq(s, n + 1, Len(s)))
Reading(s) ==
    IF \E i \in 1..Len(s) : s[i] = "|" /\ Depth(s, i) = 0
    THEN LET terms == ReadTerms(s)
         IN  IF \E i \in 1..Len(terms) : terms[i] = NoAst THEN NoAst ELSE Alternation(terms)
    ELSE IF s = <<>> \/ FirstRepetition(s) = 0 THEN NoAst
    ELSE IF FirstRepetition(s) < Len(s)
    THEN LET reps == ReadRepetitions(s)
         IN  IF \E i \in 1..Len(reps) : reps[i] = NoAst THEN NoAst ELSE Concatenation(reps)
    ELSE IF s[Len(s)] = "*"
    THEN LET atom == Reading(SubSeq(s, 1, (CHOOSE j \in 1..Len(s) : StarRun(s, j + 1) = Len(s) /\ s[j] # "*")))
         IN  IF atom = NoAst THEN NoAst ELSE Star(atom)
    ELSE IF Len(s) = 1
    THEN IF s[1] = "eps" THEN Epsilon
         ELSE IF from_char(s[1]).ok THEN Literal(from_char(s[1]).val)
         ELSE NoAst
    ELSE Reading(SubSeq(s, 2, Len(s) - 1))

Derives(s) == Reading(s) # NoAst

\* n '*' characters
Stars(n) == [i \in 1..n |-> "*"]

\* every Concatenation and Alternation of the tree has at least one child
RECURSIVE NonEmptyChildren(_)
NonEmptyChildren(t) ==
    /\ t.k \in {"Concatenation", "Alternation"} => Len(t.c) >= 1
    /\ \A i \in 1..Len(t.c) : NonEmptyChildren(t.c[i])

\* the words a tree accepts and the Alphabet values occurring in them
AcceptedWords(t) == {w \in Words : Accepts(t, w)}
SymbolsOf(w) == {w[i] : i \in 1..Len(w)}

\* equivalent_to past its test of the used alphabets: the two automata
\* compiled over the alphabets of self and compared
compare_automata(self, other) ==
    nfa_eq(compile_to_nfa(self, used_alphabets(self)), compile_to_nfa(other, used_alphabets(self)))

----------------------------------------------------------------------------
(* The claims *)

\* C1: flatten preserves the language: after a flatten, matches answers on
\* the flattened tree as it does on the tree flatten was applied to, for
\* every word.
C1_FlattenPreservesMatches ==
    op = "flatten" => \A w \in Words : matches(ast, w) = matches(prev, w)

\* C2: flatten is idempotent: a flattened tree is a fixed point of flatten.
C2_FlattenIdempotent ==
    op = "flatten" => flatten(ast) = ast

\* C3: flatten establishes the normalized form.
C3_FlattenNormalizes ==
    op = "flatten" => Normalized(ast)

\* C10: flatten of a chain of one or more Stars around a tree x that is no
\* Star is Star(flatten(x)).
C10_StarChainCollapsesToOneStar ==
    (op = "flatten" /\ prev.k = "Star") => ast = Star(flatten(StarCore(prev)))

\* C4: equivalent_to returns true exactly when the two trees denote the
\* same language.
C4_EquivalentDecidesSameLanguage ==
    op = "equivalent_to" => (answer <=> SameLanguage(ast, another))
C4_Witness ==
    /\ op = "equivalent_to" /\ answer /\ ast # another
    /\ ast.k = "Star" /\ another.k = "Alternation"

\* C5: the text fmt renders from a tree parses, and the parsed tree denotes
\* the language of the tree rendered.
C5_RoundTripSameLanguage ==
    (op = "parse_str" /\ origin # NoAst) => (outcome = "Ok" /\ SameLanguage(ast, origin))
C5_Witness ==
    /\ op = "parse_str" /\ outcome = "Ok" /\ ast # origin
    /\ origin.k = "Concatenation" /\ Len(origin.c) = 2 /\ origin.c[1].k = "Alternation"

\* C6: the tree parsed from the text fmt renders from a tree t flattens to
\* flatten(t).
C6_RoundTripFlattenEqual ==
    (op = "parse_str" /\ origin # NoAst) => (outcome = "Ok" /\ flatten(ast) = flatten(origin))

\* C7: an accepted text yields the tree of its reading by precedence: the
\* Alternation of its terms if they are two or more, each term the
\* Concatenation of its repetitions if they are two or more, '*' applied to
\* the atom before it; and "ab*|cd" yields
\* Alternation([Concatenation([A, Star(B)]), Concatenation([C, D])]).
C7_ParserEncodesPrecedence ==
    /\ (op = "parse_str" /\ outcome = "Ok") => ast = Reading(text)
    /\ (op = "parse_str" /\ text = <<"a", "b", "*", "|", "c", "d">>) =>
          ast = Alternation(<<Concatenation(<<Literal("A"), Star(Literal("B"))>>),
                              Concatenation(<<Literal("C"), Literal("D")>>)>>)
C7_Witness ==
    /\ op = "parse_str" /\ outcome = "Ok" /\ text = <<"a", "b", "*", "|", "c", "d">>
    /\ ast.k = "Alternation" /\ ast.c[1].k = "Concatenation"

\* C8: an atom x followed by one or more '*' parses to one Star around the
\* parse of x; a group in parentheses followed by none parses as what it
\* encloses, and a single character to an Epsilon or a Literal.
C8_TrailingStarsCollapse ==
    op = "parse_str" =>
        /\ \A n \in 1..Len(text) :
              LET x == SubSeq(text, 1, Len(text) - n)
              IN  (SubSeq(text, Len(text) - n + 1, Len(text)) = Stars(n)
                   /\ IsAtomText(x) /\ parse_str(x).outcome = "Ok")
                  => (outcome = "Ok" /\ ast = Star(parse_str(x).ast))
        /\ (IsAtomText(text) /\ Len(text) >= 2 /\ outcome = "Ok") =>
              ast = parse_str(SubSeq(text, 2, Len(text) - 1)).ast
        /\ (Len(text) = 1 /\ outcome = "Ok") => ast.k \in {"Epsilon", "Literal"}
C8_Witness ==
    /\ op = "parse_str" /\ outcome = "Ok"
    /\ text = <<"(", "a", ")", "*", "*">> /\ ast = Star(Literal("A"))

C11_MatchesIsMembership ==
    op = "matches" =>
        /\ answer <=> Accepts(ast, symbols)
        /\ ast = parse_str(<<"a", "*", "b", "eps", "c", "c", "*">>).ast =>
              /\ symbols = <<"B", "C">> => answer
              /\ symbols = <<"A", "A", "C">> => ~answer
        /\ ast = parse_str(<<"eps", "|", "a">>).ast =>
              /\ symbols \in {<<>>, <<"A">>} => answer
              /\ symbols = <<"A", "B">> => ~answer
C11_Witness ==
    /\ op = "matches" /\ answer /\ symbols = <<"B", "C">>
    /\ ast = Concatenation(<<Star(Literal("A")), Literal("B"), Epsilon, Literal("C"),
                             Star(Literal("C"))>>)

\* C12: two trees whose used alphabets differ denote different languages:
\* every Alphabet value used in a tree occurs in a word the tree accepts,
\* and no accepted word has a value the tree does not use; so what
\* equivalent_to answers is what the comparison of the two automata alone
\* answers.
C12_FastRejectSound ==
    op = "equivalent_to" =>
        /\ used_alphabets(ast) # used_alphabets(another) => ~SameLanguage(ast, another)
        /\ \E accepted \in {AcceptedWords(ast)} :
              /\ \A x \in used_alphabets(ast) : \E w \in accepted : x \in SymbolsOf(w)
              /\ \A w \in accepted : SymbolsOf(w) \subseteq used_alphabets(ast)
        /\ answer = compare_automata(ast, another)
C12_Witness ==
    /\ op = "equivalent_to" /\ ~answer
    /\ used_alphabets(ast) = {"A"} /\ used_alphabets(another) = {"A", "B"}
    /\ ast = Star(Literal("A")) /\ another = Alternation(<<Literal("A"), Literal("B")>>)

\* C13: a tree the caller holds, parsed or built with at least one child
\* under every Concatenation and Alternation and then flattened any number
\* of times, has at least one child under every Concatenation and
\* Alternation, and compile_to_nfa does not panic on it.
C13_ChildrenNeverEmpty ==
    ast # NoAst =>
        /\ NonEmptyChildren(ast)
        /\ ~compile_to_nfa(ast, used_alphabets(ast)).panic
C13_Witness ==
    /\ op = "flatten"
    /\ prev = Alternation(<<Alternation(<<Literal("A"), Literal("B")>>), Literal("B")>>)
    /\ ast = Alternation(<<Literal("A"), Literal("B"), Literal("B")>>)

====
